---- MODULE Spec2Model ----
(***************************************************************************)
(* A model of the research-assistant editor: the App component's state     *)
(* (src/App.tsx), its event handlers and the continuations of their        *)
(* awaited gateway calls, and the gateway functions of the gemini service  *)
(* (src/unnamed/part_000) as operators over the raw service responses.     *)
(*                                                                         *)
(* Texts are sequences of one-character strings.  One action is one        *)
(* browser task: an event handler up to its first await, or the settling   *)
(* of a request together with the microtask continuation it resumes.       *)
(* The value of a fulfilled response is read by nobody before Promise.all  *)
(* resolves, so it is drawn in the step that consumes it.                  *)
(***************************************************************************)
EXTENDS Integers, Sequences, FiniteSets, TLC

VARIABLES
    doc,           \* DocumentState {text, title}            App.tsx:15
    selectedText,  \* App.tsx:20
    activeTab,     \* App.tsx:21
    analysis,      \* AnalysisState                          App.tsx:23
    isUploading,   \* App.tsx:33
    apiKey,        \* process.env.API_KEY is set             part_000:5
    scans,         \* runAnalysis invocations suspended at await Promise.all
    verifies,      \* number of verifyTextClaims requests outstanding
    upload,        \* the handleFileUpload invocation in progress
    lastOp         \* history: the handler or continuation that ran last

vars == <<doc, selectedText, activeTab, analysis, isUploading, apiKey,
          scans, verifies, upload, lastOp>>

prog == <<doc, selectedText, activeTab, analysis, isUploading, apiKey,
          scans, verifies, upload>>

-----------------------------------------------------------------------------
(* Bounds of the model *)

MaxScans == 1
MaxVerifies == 1
MaxStamp == 0
MaxTextLen == 3
MaxPatLen == 2
MaxReplLen == 2
MaxChunks == 3

-----------------------------------------------------------------------------
(* Values *)

Null == "null"

\* null where the other values are objects (aiDetection, a parsed JSON null)
NullObj == [t |-> "null"]

DEFAULT_TEXT == <<"a", "a">>

DEFAULT_TITLE == "Untitled Document"

GRAMMAR == "GRAMMAR"
SOURCES == "SOURCES"
SUMMARY == "SUMMARY"
AI_CHECK == "AI_CHECK"

AnalysisType == {GRAMMAR, "CLARITY", SOURCES, SUMMARY, AI_CHECK}

SidebarTabs == {GRAMMAR, AI_CHECK, SOURCES, SUMMARY}

AnalysisFailed ==
    "Failed to complete analysis. Please check your internet connection or API key."

VerifyFailed == "Failed to verify selected text."

ReadFailed == "Failed to read document text. The format might not be supported."

InitialAnalysis ==
    [isAnalyzing |-> FALSE, suggestions |-> <<>>, sources |-> <<>>,
     claimVerification |-> <<>>, summary |-> Null, aiDetection |-> NullObj,
     error |-> Null]

Requests == {"grammar", "sources", "summary", "ai"}

Results(a) ==
    [suggestions |-> a.suggestions, sources |-> a.sources,
     summary |-> a.summary, aiDetection |-> a.aiDetection]

-----------------------------------------------------------------------------
(* String primitives of the JavaScript runtime *)

RECURSIVE Strings(_, _)
Strings(chars, n) ==
    IF n = 0 THEN {<<>>}
    ELSE LET shorter == Strings(chars, n - 1)
         IN  shorter \cup {Append(s, c) : s \in shorter, c \in chars}

IsSpace(c) == c = " "

RECURSIVE TrimStart(_)
TrimStart(s) ==
    IF s # <<>> /\ IsSpace(Head(s)) THEN TrimStart(Tail(s)) ELSE s

RECURSIVE TrimEnd(_)
TrimEnd(s) ==
    IF s # <<>> /\ IsSpace(s[Len(s)]) THEN TrimEnd(SubSeq(s, 1, Len(s) - 1)) ELSE s

Trim(s) == TrimEnd(TrimStart(s))

\* String.prototype.substring(from, to) with 0 <= from <= to
Substring(s, from, to) ==
    LET hi == IF to > Len(s) THEN Len(s) ELSE to
        lo == IF from > hi THEN hi ELSE from
    IN  SubSeq(s, lo + 1, hi)

\* String.prototype.indexOf: the 0-based position of the first occurrence, or -1
IndexOf(s, pat) ==
    LET hits == {i \in 0..(Len(s) - Len(pat)) : SubSeq(s, i + 1, i + Len(pat)) = pat}
    IN  IF hits = {} THEN -1 ELSE CHOOSE i \in hits : \A j \in hits : i <= j

\* the characters U+0060 and U+0027, written as words
Backtick == "backtick"

Quote == "quote"

\* GetSubstitution for a string pattern (no capture groups): $$, $&, $(backtick)
\* and $(quote) are expanded, every other character (a lone $ included) is copied.
RECURSIVE GetSubstitutionFrom(_, _, _, _, _)
GetSubstitutionFrom(matched, before, after, repl, i) ==
    IF i > Len(repl) THEN <<>>
    ELSE IF repl[i] = "$" /\ i < Len(repl) /\ repl[i + 1] \in {"$", "&", Backtick, Quote}
    THEN (CASE repl[i + 1] = "$" -> <<"$">>
            [] repl[i + 1] = "&" -> matched
            [] repl[i + 1] = Backtick -> before
            [] repl[i + 1] = Quote -> after)
         \o GetSubstitutionFrom(matched, before, after, repl, i + 2)
    ELSE <<repl[i]>> \o GetSubstitutionFrom(matched, before, after, repl, i + 1)

GetSubstitution(matched, before, after, repl) ==
    GetSubstitutionFrom(matched, before, after, repl, 1)

\* String.prototype.replace(pattern: string, replacement: string)
StringReplace(s, pat, repl) ==
    LET pos == IndexOf(s, pat)
    IN  IF pos = -1 THEN s
        ELSE LET before == SubSeq(s, 1, pos)
                 after == SubSeq(s, pos + Len(pat) + 1, Len(s))
             IN  before \o GetSubstitution(pat, before, after, repl) \o after

-----------------------------------------------------------------------------
(* Raw responses of the generative-text service.  response.text is absent  *)
(* ("none"), not parseable as JSON ("invalid") or a JSON document ("json");*)
(* for the free-text calls it is absent or a text ("text").                *)

NoText == [kind |-> "none"]

InvalidJson == [kind |-> "invalid"]

Json(v) == [kind |-> "json", value |-> v]

JsonArray(items) == [t |-> "array", items |-> items]

Text(s) == [kind |-> "text", text |-> s]

Stamps == 0..MaxStamp

\* The items of a grammar response (explanation, type and severity are
\* carried along by the spread and read by no handler).
ItemA == [originalText |-> <<"a", "a">>, suggestedText |-> <<"a", "b">>]

ItemB == [originalText |-> <<"c">>, suggestedText |-> <<"a">>]

GrammarResponses ==
    {NoText, InvalidJson, Json(NullObj), Json(JsonArray(<<>>)),
     Json(JsonArray(<<ItemA, ItemB>>))}

WebChunk(uri, title) == [web |-> TRUE, uri |-> uri, title |-> title]

OtherChunk == [web |-> FALSE, uri |-> "", title |-> ""]

SourceResponses ==
    {[grounded |-> FALSE, chunks |-> <<>>],
     [grounded |-> TRUE, chunks |-> <<OtherChunk>>],
     [grounded |-> TRUE,
      chunks |-> <<WebChunk("u1", "T1"), OtherChunk, WebChunk("u1", "")>>]}

SummaryResponses == {NoText, Text("S")}

AiObject(score, label) == [t |-> "object", score |-> score, label |-> label]

AiResponses ==
    {NoText, InvalidJson, Json(NullObj),
     Json(AiObject(80, "Mixed Signals")),
     Json(AiObject(81, "Likely AI-Generated"))}

\* the four responses of one full scan: grammar, sources, summary, detection
Ungrounded == [grounded |-> FALSE, chunks |-> <<>>]

Grounded ==
    [grounded |-> TRUE,
     chunks |-> <<WebChunk("u1", "T1"), OtherChunk, WebChunk("u1", "")>>]

ScanResponses ==
    {<<NoText, Ungrounded, NoText, NoText>>,
     <<InvalidJson, Grounded, Text("S"), InvalidJson>>,
     <<Json(JsonArray(<<ItemA, ItemB>>)), Ungrounded, Text("S"),
       Json(AiObject(80, "Mixed Signals"))>>,
     <<Json(JsonArray(<<ItemA, ItemB>>)), Grounded, Text("S"),
       Json(AiObject(81, "Likely AI-Generated"))>>,
     <<Json(JsonArray(<<ItemA, ItemB>>)), Grounded, Text("S"), Json(NullObj)>>}

ClaimItem == [claim |-> "c", status |-> "Verified"]

ClaimResponses ==
    {NoText, InvalidJson, Json(NullObj), Json(JsonArray(<<ClaimItem>>))}

ExtractResponses == {NoText, Text(<<"a", "a">>)}

-----------------------------------------------------------------------------
(* The gateway functions, from the response to the value they resolve to   *)

\* mutant: the id built from the time stamp alone
checkGrammarAndStyleStampOnly(response, now) ==
    IF response.kind = "json"
    THEN IF response.value.t = "array"
         THEN [i \in 1..Len(response.value.items) |->
                 [id |-> <<"suggestion", 0, now>>,
                  originalText |-> response.value.items[i].originalText,
                  suggestedText |-> response.value.items[i].suggestedText]]
         ELSE <<>>
    ELSE <<>>

\* data.map(...) throws a TypeError, caught with the parse errors, unless
\* the parsed document is an array
checkGrammarAndStyle(response, now) ==
    IF response.kind = "json"
    THEN IF response.value.t = "array"
         THEN [i \in 1..Len(response.value.items) |->
                 [id |-> <<"suggestion", i - 1, now>>,
                  originalText |-> response.value.items[i].originalText,
                  suggestedText |-> response.value.items[i].suggestedText]]
         ELSE <<>>
    ELSE <<>>

\* mutant: findLastIndex in place of findIndex
FindLastIndexByUrl(a, url) ==
    CHOOSE i \in 1..Len(a) :
        /\ a[i].url = url
        /\ \A j \in (i + 1)..Len(a) : a[j].url # url

\* a.findIndex(t => t.url === v.url): the 1-based position of the first
\* element of a with that url
FindIndexByUrl(a, url) ==
    CHOOSE i \in 1..Len(a) :
        /\ a[i].url = url
        /\ \A j \in 1..(i - 1) : a[j].url # url

RECURSIVE WebSources(_)
WebSources(chunks) ==
    IF chunks = <<>> THEN <<>>
    ELSE LET c == Head(chunks)
         IN  (IF c.web
              THEN <<[url |-> c.uri,
                      title |-> IF c.title = "" THEN "External Source" ELSE c.title]>>
              ELSE <<>>) \o WebSources(Tail(chunks))

RECURSIVE KeepFirstByUrl(_, _)
KeepFirstByUrl(a, i) ==
    IF i > Len(a) THEN <<>>
    ELSE (IF FindIndexByUrl(a, a[i].url) = i THEN <<a[i]>> ELSE <<>>)
         \o KeepFirstByUrl(a, i + 1)

verifySources(response) ==
    LET sources == IF response.grounded THEN WebSources(response.chunks) ELSE <<>>
    IN  KeepFirstByUrl(sources, 1)

verifyTextClaims(response, now) ==
    IF response.kind = "json"
    THEN IF response.value.t = "array"
         THEN [i \in 1..Len(response.value.items) |->
                 [id |-> <<"claim", i - 1, now>>,
                  claim |-> response.value.items[i].claim,
                  status |-> response.value.items[i].status]]
         ELSE <<>>
    ELSE <<>>

generateSummary(response) ==
    IF response.kind = "text" THEN response.text ELSE "Could not generate summary."

AiFallback == [t |-> "object", score |-> 0, label |-> "Likely Human"]

detectAIContent(response) ==
    IF response.kind = "json" THEN response.value ELSE AiFallback

extractTextFromFile(response) ==
    IF response.kind = "text" THEN response.text ELSE <<>>

-----------------------------------------------------------------------------
(* Inputs *)

EditTexts == {<<>>, DEFAULT_TEXT}

\* selectionStart, selectionEnd
SelectionRanges == {<<0, 0>>, <<0, 1>>}

NoFile == [name |-> "", empty |-> TRUE, readable |-> TRUE]

\* files the picker can hand over: a document, an empty file, a file whose
\* read fails
Files ==
    {[name |-> "f.pdf", empty |-> FALSE, readable |-> TRUE],
     [name |-> "f.pdf", empty |-> TRUE, readable |-> TRUE],
     [name |-> "f.pdf", empty |-> FALSE, readable |-> FALSE]}

NoUpload == [phase |-> "idle", file |-> NoFile]

NoInfo == [suggestions |-> <<>>, sources |-> <<>>, summary |-> Null,
           aiDetection |-> NullObj]

NoArg == [none |-> TRUE]

\* history of the step: the handler or continuation that ran (op), its
\* argument (arg: the suggestion accepted, the file name and text extracted),
\* and for the continuation of a full scan the four result fields as they were
\* when the scan started (pre), the four values its calls returned (ret) and
\* the number of its requests still outstanding (left)
Op(name) == [op |-> name, arg |-> NoArg, pre |-> NoInfo, ret |-> NoInfo, left |-> 0]

ArgOp(name, arg) == [op |-> name, arg |-> arg, pre |-> NoInfo, ret |-> NoInfo, left |-> 0]

ScanOp(name, pre, ret, left) ==
    [op |-> name, arg |-> NoArg, pre |-> pre, ret |-> ret, left |-> left]

-----------------------------------------------------------------------------
(* Initial state *)

Init ==
    /\ doc = [text |-> DEFAULT_TEXT, title |-> DEFAULT_TITLE]
    /\ selectedText = <<>>
    /\ activeTab = GRAMMAR
    /\ analysis = InitialAnalysis
    /\ isUploading = FALSE
    /\ apiKey \in BOOLEAN
    /\ scans = <<>>
    /\ verifies = 0
    /\ upload = NoUpload
    /\ lastOp = Op("init")

-----------------------------------------------------------------------------
(* Editing, selecting, switching tabs *)

\* mutant: an edit that also drops the results computed from the old text
handleTextChangeInvalidating(value) ==
    /\ doc' = [doc EXCEPT !.text = value]
    /\ analysis' = [analysis EXCEPT !.suggestions = <<>>, !.sources = <<>>]
    /\ lastOp' = Op("handleTextChange")
    /\ UNCHANGED <<selectedText, activeTab, isUploading, apiKey,
                   scans, verifies, upload>>

handleTextChange(value) ==
    /\ doc' = [doc EXCEPT !.text = value]
    /\ lastOp' = Op("handleTextChange")
    /\ UNCHANGED <<selectedText, activeTab, analysis, isUploading, apiKey,
                   scans, verifies, upload>>

handleSelect(selectionStart, selectionEnd) ==
    /\ selectedText' =
          IF selectionStart # selectionEnd
          THEN Substring(doc.text, selectionStart, selectionEnd)
          ELSE <<>>
    /\ lastOp' = Op("handleSelect")
    /\ UNCHANGED <<doc, activeTab, analysis, isUploading, apiKey,
                   scans, verifies, upload>>

onSelectTab(tab) ==
    /\ activeTab' = tab
    /\ lastOp' = Op("onSelectTab")
    /\ UNCHANGED <<doc, selectedText, analysis, isUploading, apiKey,
                   scans, verifies, upload>>

-----------------------------------------------------------------------------------------------------------------------------------------------------
(* Full scan: runAnalysis and the continuation of its await Promise.all    *)

RemoveAt(seq, i) == SubSeq(seq, 1, i - 1) \o SubSeq(seq, i + 1, Len(seq))

\* setAnalysis(prev => ({...prev, isAnalyzing: true, error: null, claimVerification: []}))
scanStarted(prev) ==
    [prev EXCEPT !.isAnalyzing = TRUE, !.error = Null, !.claimVerification = <<>>]

\* mutant: the success update leaves the summary out
scanReplacedNoSummary(suggestions, sources, summary, aiDetection) ==
    [isAnalyzing |-> FALSE, suggestions |-> suggestions, sources |-> sources,
     claimVerification |-> <<>>, summary |-> Null,
     aiDetection |-> aiDetection, error |-> Null]

\* setAnalysis({isAnalyzing: false, suggestions, sources, claimVerification: [], ...})
scanReplaced(suggestions, sources, summary, aiDetection) ==
    [isAnalyzing |-> FALSE, suggestions |-> suggestions, sources |-> sources,
     claimVerification |-> <<>>, summary |-> summary,
     aiDetection |-> aiDetection, error |-> Null]

\* the catch block: setAnalysis(prev => ({...prev, isAnalyzing: false, error: "..."}))
scanFailed(prev) ==
    [prev EXCEPT !.isAnalyzing = FALSE, !.error = AnalysisFailed]

\* aiDetection.score > 80; the score of a value that is no object is
\* undefined, and undefined > 80 is false
ScoreAbove(aiDetection, limit) ==
    aiDetection.t = "object" /\ aiDetection.score > limit

\* mutant: the threshold compared with >= instead of >
routeTabAtLeast(tab, suggestions, sources, aiDetection) ==
    IF ScoreAbove(aiDetection, 79) THEN AI_CHECK
    ELSE IF Len(suggestions) > 0 THEN GRAMMAR
    ELSE IF Len(sources) > 0 THEN SOURCES
    ELSE tab

\* the tab the success continuation leaves active
routeTab(tab, suggestions, sources, aiDetection) ==
    IF ScoreAbove(aiDetection, 80) THEN AI_CHECK
    ELSE IF Len(suggestions) > 0 THEN GRAMMAR
    ELSE IF Len(sources) > 0 THEN SOURCES
    ELSE tab

FullScanEnabled ==
    ~(analysis.isAnalyzing \/ Trim(doc.text) = <<>> \/ isUploading)

\* mutant: the handler without its early return on a blank text
runAnalysisUnguarded ==
    /\ Len(scans) < MaxScans
    /\ analysis' = scanStarted(analysis)
    /\ scans' = Append(scans, [fulfilled |-> 0, pre |-> Results(analysis)])
    /\ lastOp' = Op("runAnalysis")
    /\ UNCHANGED <<doc, selectedText, activeTab, isUploading, apiKey,
                   verifies, upload>>

runAnalysis ==
    IF Trim(doc.text) = <<>>
    THEN /\ lastOp' = Op("runAnalysis")
         /\ UNCHANGED prog
    ELSE IF ~apiKey
    THEN \* each of the four calls throws in getAiClient: the catch block runs
         \* before any other event
         /\ analysis' = scanFailed(scanStarted(analysis))
         /\ lastOp' = ScanOp("scanFailed", Results(analysis), NoInfo, 0)
         /\ UNCHANGED <<doc, selectedText, activeTab, isUploading, apiKey,
                        scans, verifies, upload>>
    ELSE /\ Len(scans) < MaxScans
         /\ analysis' = scanStarted(analysis)
         /\ scans' = Append(scans, [fulfilled |-> 0, pre |-> Results(analysis)])
         /\ lastOp' = Op("runAnalysis")
         /\ UNCHANGED <<doc, selectedText, activeTab, isUploading, apiKey,
                        verifies, upload>>

\* the requests of scan i outstanding once one more of them has settled
StillOutstanding(i) == Cardinality(Requests) - scans[i].fulfilled - 1

\* lines 63-80, and the catch block when line 74 reads .score of null
scanContinuation(i, suggestions, sources, summary, aiDetection) ==
    LET replaced == scanReplaced(suggestions, sources, summary, aiDetection)
        ret == [suggestions |-> suggestions, sources |-> sources,
                summary |-> summary, aiDetection |-> aiDetection]
    IN  IF aiDetection = NullObj
        THEN /\ analysis' = scanFailed(replaced)
             /\ activeTab' = activeTab
             /\ lastOp' = ScanOp("scanThrew", scans[i].pre, ret, StillOutstanding(i))
        ELSE /\ analysis' = replaced
             /\ activeTab' = routeTab(activeTab, suggestions, sources, aiDetection)
             /\ lastOp' = ScanOp("scanSucceeded", scans[i].pre, ret, StillOutstanding(i))

\* mutant: the continuation resumed by the first fulfilment (Promise.race)
FirstFulfilled(i) == TRUE

\* Promise.all resolves when every request is fulfilled
AllFulfilled(i) == scans[i].fulfilled + 1 = Cardinality(Requests)

\* one more of the requests of scan i is fulfilled; the last fulfilment
\* resolves Promise.all
requestFulfilled(i) ==
    /\ i \in 1..Len(scans)
    /\ IF ~AllFulfilled(i)
       THEN /\ scans' = [scans EXCEPT ![i].fulfilled = @ + 1]
            /\ lastOp' = Op("requestFulfilled")
            /\ UNCHANGED <<analysis, activeTab>>
       ELSE /\ scans' = RemoveAt(scans, i)
            /\ \E r \in ScanResponses, now \in Stamps :
                 scanContinuation(i, checkGrammarAndStyle(r[1], now), verifySources(r[2]),
                                  generateSummary(r[3]), detectAIContent(r[4]))
    /\ UNCHANGED <<doc, selectedText, isUploading, apiKey, verifies, upload>>

\* one of the outstanding requests of scan i is rejected: Promise.all rejects
\* with the first rejection and the catch block runs; the scan's other
\* requests stay outstanding and nothing reads what they settle to
requestRejected(i) ==
    /\ i \in 1..Len(scans)
    /\ scans' = RemoveAt(scans, i)
    /\ analysis' = scanFailed(analysis)
    /\ lastOp' = ScanOp("scanFailed", scans[i].pre, NoInfo, StillOutstanding(i))
    /\ UNCHANGED <<doc, selectedText, activeTab, isUploading, apiKey,
                   verifies, upload>>

-----
(* Selection verification: verifySelection and the continuation of its await *)

\* the button is rendered when selectedText is non-empty
VerifySelectionEnabled == selectedText # <<>> /\ ~analysis.isAnalyzing

\* setAnalysis(prev => ({...prev, isAnalyzing: true, error: null}))
verifyStarted(prev) == [prev EXCEPT !.isAnalyzing = TRUE, !.error = Null]

\* mutant: the success update written without the spread of prev
verifySucceededWithoutPrev(prev, claims) ==
    [InitialAnalysis EXCEPT !.claimVerification = claims]

\* setAnalysis(prev => ({...prev, isAnalyzing: false, claimVerification: claims}))
verifySucceeded(prev, claims) ==
    [prev EXCEPT !.isAnalyzing = FALSE, !.claimVerification = claims]

\* setAnalysis(prev => ({...prev, isAnalyzing: false, error: "..."}))
verifyFailed(prev) == [prev EXCEPT !.isAnalyzing = FALSE, !.error = VerifyFailed]

verifySelection ==
    IF selectedText = <<>>
    THEN /\ lastOp' = Op("verifySelection")
         /\ UNCHANGED prog
    ELSE IF ~apiKey
    THEN /\ analysis' = verifyFailed(verifyStarted(analysis))
         /\ activeTab' = SOURCES
         /\ lastOp' = Op("verifyFailed")
         /\ UNCHANGED <<doc, selectedText, isUploading, apiKey, scans,
                        verifies, upload>>
    ELSE /\ verifies < MaxVerifies
         /\ analysis' = verifyStarted(analysis)
         /\ activeTab' = SOURCES
         /\ verifies' = verifies + 1
         /\ lastOp' = Op("verifySelection")
         /\ UNCHANGED <<doc, selectedText, isUploading, apiKey, scans, upload>>

claimsFulfilled ==
    /\ verifies > 0
    /\ verifies' = verifies - 1
    /\ \E response \in ClaimResponses, now \in Stamps :
          analysis' = verifySucceeded(analysis, verifyTextClaims(response, now))
    /\ lastOp' = Op("verifySucceeded")
    /\ UNCHANGED <<doc, selectedText, activeTab, isUploading, apiKey, scans,
                   upload>>

claimsRejected ==
    /\ verifies > 0
    /\ verifies' = verifies - 1
    /\ analysis' = verifyFailed(analysis)
    /\ lastOp' = Op("verifyFailed")
    /\ UNCHANGED <<doc, selectedText, activeTab, isUploading, apiKey, scans,
                   upload>>

-----------------------------------------------------------------------------
(* Accepting a suggestion *)

\* the sidebar renders the suggestion cards when it shows neither the
\* spinner nor the error and the issues tab is active
AcceptFixEnabled(i) ==
    /\ ~analysis.isAnalyzing
    /\ analysis.error = Null
    /\ activeTab = GRAMMAR
    /\ i \in 1..Len(analysis.suggestions)

\* mutant: every suggestion at or before the accepted one is dropped
RECURSIVE FilterOutUpToId(_, _)
FilterOutUpToId(suggestions, id) ==
    IF suggestions = <<>> THEN <<>>
    ELSE IF Head(suggestions).id = id THEN Tail(suggestions)
    ELSE FilterOutUpToId(Tail(suggestions), id)

\* prev.suggestions.filter(s => s.id !== id)
RECURSIVE FilterOutId(_, _)
FilterOutId(suggestions, id) ==
    IF suggestions = <<>> THEN <<>>
    ELSE (IF Head(suggestions).id # id THEN <<Head(suggestions)>> ELSE <<>>)
         \o FilterOutId(Tail(suggestions), id)

\* prev.text.replace(suggestion.originalText, suggestion.suggestedText)
appliedText(text, suggestion) ==
    StringReplace(text, suggestion.originalText, suggestion.suggestedText)

applySuggestion(suggestion) ==
    /\ doc' = [doc EXCEPT !.text = appliedText(doc.text, suggestion)]
    /\ analysis' = [analysis EXCEPT
                      !.suggestions = FilterOutId(analysis.suggestions, suggestion.id)]
    /\ lastOp' = ArgOp("applySuggestion", suggestion)
    /\ UNCHANGED <<selectedText, activeTab, isUploading, apiKey, scans,
                   verifies, upload>>

-----------------------------------------------------------------------------
(* Upload: handleFileUpload, reader.onload and the continuation of its await *)

UploadEnabled == ~(isUploading \/ analysis.isAnalyzing)

\* mutant: the catch block clears isAnalyzing as the other two catch blocks do
extractFailedClearsAnalyzing(prev) ==
    [prev EXCEPT !.isAnalyzing = FALSE, !.error = ReadFailed]

\* setAnalysis(prev => ({...prev, error: "Failed to read document text. ..."}))
extractFailed(prev) == [prev EXCEPT !.error = ReadFailed]

\* mutant: the reset keeps the results of the previous document
extractSucceededKeepsResults(prev) ==
    [prev EXCEPT !.isAnalyzing = FALSE, !.claimVerification = <<>>, !.error = Null]

\* the analysis state after a successful extraction
extractSucceeded(prev) == InitialAnalysis

handleFileUpload(file) ==
    IF file = NoFile
    THEN /\ lastOp' = Op("handleFileUpload")
         /\ UNCHANGED prog
    ELSE /\ isUploading' = TRUE
         /\ upload' = [phase |-> "reading", file |-> file]
         /\ lastOp' = Op("handleFileUpload")
         /\ UNCHANGED <<doc, selectedText, activeTab, analysis, apiKey, scans,
                        verifies>>

\* base64String is empty for an empty file: the handler returns and nothing
\* clears isUploading
readerOnload ==
    /\ upload.phase = "reading"
    /\ upload.file.readable
    /\ IF upload.file.empty
       THEN /\ upload' = NoUpload
            /\ lastOp' = Op("readerOnloadEmpty")
            /\ UNCHANGED <<analysis, isUploading>>
       ELSE IF ~apiKey
       THEN /\ analysis' = extractFailed(analysis)
            /\ isUploading' = FALSE
            /\ upload' = NoUpload
            /\ lastOp' = Op("extractFailed")
       ELSE /\ upload' = [upload EXCEPT !.phase = "extracting"]
            /\ lastOp' = Op("readerOnload")
            /\ UNCHANGED <<analysis, isUploading>>
    /\ UNCHANGED <<doc, selectedText, activeTab, apiKey, scans, verifies>>

\* the reader has no onerror handler
readerOnerror ==
    /\ upload.phase = "reading"
    /\ ~upload.file.readable
    /\ upload' = NoUpload
    /\ lastOp' = Op("readerOnerror")
    /\ UNCHANGED <<doc, selectedText, activeTab, analysis, isUploading, apiKey,
                   scans, verifies>>

extractFulfilled ==
    /\ upload.phase = "extracting"
    /\ \E response \in ExtractResponses :
          LET extractedText == extractTextFromFile(response)
          IN  /\ doc' = [text |-> extractedText, title |-> upload.file.name]
              /\ lastOp' = ArgOp("extractSucceeded",
                                 [text |-> extractedText, name |-> upload.file.name])
    /\ analysis' = extractSucceeded(analysis)
    /\ isUploading' = FALSE
    /\ upload' = NoUpload
    /\ UNCHANGED <<selectedText, activeTab, apiKey, scans, verifies>>

extractRejected ==
    /\ upload.phase = "extracting"
    /\ analysis' = extractFailed(analysis)
    /\ isUploading' = FALSE
    /\ upload' = NoUpload
    /\ lastOp' = Op("extractFailed")
    /\ UNCHANGED <<doc, selectedText, activeTab, apiKey, scans, verifies>>

-----------------------------------------------------------------------------
(* The application: every handler behind the control that triggers it *)

EditText == \E value \in EditTexts : handleTextChange(value)

Select == \E r \in SelectionRanges : handleSelect(r[1], r[2])

ClickTab == \E tab \in SidebarTabs : onSelectTab(tab)

ClickFullScan == FullScanEnabled /\ runAnalysis

ClickVerifySelection == VerifySelectionEnabled /\ verifySelection

ClickAcceptFix ==
    \E i \in 1..Len(analysis.suggestions) :
        AcceptFixEnabled(i) /\ applySuggestion(analysis.suggestions[i])

PickFile == UploadEnabled /\ \E file \in Files \cup {NoFile} : handleFileUpload(file)

ScanRequestFulfilled == \E i \in 1..Len(scans) : requestFulfilled(i)

ScanRequestRejected == \E i \in 1..Len(scans) : requestRejected(i)

Next ==
    \/ EditText
    \/ Select
    \/ ClickTab
    \/ ClickFullScan
    \/ ScanRequestFulfilled
    \/ ScanRequestRejected
    \/ ClickVerifySelection
    \/ claimsFulfilled
    \/ claimsRejected
    \/ ClickAcceptFix
    \/ PickFile
    \/ readerOnload
    \/ readerOnerror
    \/ extractFulfilled
    \/ extractRejected

Spec == Init /\ [][Next]_vars

-----------------------------------------------------------------------------
(* The handlers called directly, whatever the controls allow *)

HandlerTexts == EditTexts \cup {<<" ">>}

EditAnyText == \E value \in HandlerTexts : handleTextChange(value)

NextHandlers ==
    \/ EditAnyText
    \/ Select
    \/ runAnalysis
    \/ verifySelection
    \/ ScanRequestFulfilled
    \/ ScanRequestRejected
    \/ claimsFulfilled
    \/ claimsRejected

SpecHandlers == Init /\ [][NextHandlers]_vars

-----------------------------------------------------------------------------
(* applySuggestion on every short document and suggestion *)

TextChars == {"a", "b"}

ReplacementChars == {"a", "$", "&", Backtick, Quote}

\* the pending list after a scan whose first suggestion is (original, suggested)
PendingWith(original, suggested, rest) ==
    checkGrammarAndStyle(
        Json(JsonArray(<<[originalText |-> original, suggestedText |-> suggested]>>
                       \o rest)), 0)

InitApply ==
    /\ doc \in [text : Strings(TextChars, MaxTextLen), title : {DEFAULT_TITLE}]
    /\ selectedText = <<>>
    /\ activeTab = GRAMMAR
    /\ analysis \in
          {scanReplaced(PendingWith(original, suggested, rest), <<>>, "S", AiFallback) :
              original \in Strings(TextChars, MaxPatLen),
              suggested \in Strings(ReplacementChars, MaxReplLen),
              rest \in {<<>>, <<ItemA>>, <<ItemA, ItemB>>}}
    /\ isUploading = FALSE
    /\ apiKey = TRUE
    /\ scans = <<>>
    /\ verifies = 0
    /\ upload = NoUpload
    /\ lastOp = Op("init")

NextApply == ClickAcceptFix

SpecApply == InitApply /\ [][NextApply]_vars

-----------------------------------------------------------------------------
(* Properties *)

FinishedScan == {"scanSucceeded", "scanThrew", "scanFailed"}

\* C1: when a full scan succeeds, the aggregate holds exactly the suggestions,
\* sources, summary and detection result that scan's four calls returned, the
\* claim verifications are empty, isAnalyzing is false and there is no error;
\* a scan whose continuation throws has also replaced all four together.
C1_ScanSuccessReplacesAggregate ==
    /\ lastOp.op = "scanSucceeded" =>
        analysis = [isAnalyzing |-> FALSE,
                    suggestions |-> lastOp.ret.suggestions,
                    sources |-> lastOp.ret.sources,
                    claimVerification |-> <<>>,
                    summary |-> lastOp.ret.summary,
                    aiDetection |-> lastOp.ret.aiDetection,
                    error |-> Null]
    /\ lastOp.op = "scanThrew" => Results(analysis) = lastOp.ret

\* a scan has succeeded over earlier results and brought a different summary
C1_Witness ==
    /\ lastOp.op = "scanSucceeded"
    /\ lastOp.pre.summary # Null
    /\ lastOp.pre.summary # analysis.summary
    /\ Len(analysis.suggestions) = 2

\* C2: when a full scan fails, suggestions, sources, summary and detection
\* result are the ones the aggregate held when that scan started, isAnalyzing
\* is false and the error is the general analysis-failure message.
C2_FailedScanKeepsStartValues ==
    lastOp.op = "scanFailed" =>
        /\ Results(analysis) = lastOp.pre
        /\ ~analysis.isAnalyzing
        /\ analysis.error = AnalysisFailed

\* C3 as stated: no outcome of a scan, success or failure, becomes visible
\* while one of its four requests is still in flight.
C3_NoOutcomeWhileInFlight ==
    lastOp.op \in FinishedScan => lastOp.left = 0

\* C3: the results of a scan become visible only when all four requests have
\* been fulfilled; its failure becomes visible at the first rejection, with
\* isAnalyzing false and the analysis-failure message, whether or not the
\* other requests have completed.
C3_SuccessAfterAllFailureAtFirst ==
    /\ lastOp.op \in {"scanSucceeded", "scanThrew"} => lastOp.left = 0
    /\ lastOp.op = "scanFailed" =>
          /\ lastOp.left \in 0..(Cardinality(Requests) - 1)
          /\ ~analysis.isAnalyzing
          /\ analysis.error = AnalysisFailed

\* a scan failure is on display while three of its requests are in flight
C3_Witness ==
    /\ lastOp.op = "scanFailed"
    /\ lastOp.left = Cardinality(Requests) - 1
    /\ analysis.error = AnalysisFailed

\* C4: at most one analysis run (full scan or selection verification) is in
\* progress at any time, and isAnalyzing is true for as long as one is.
C4_OneRunAndAnalyzing ==
    /\ Len(scans) + verifies <= 1
    /\ (scans # <<>> \/ verifies > 0) => analysis.isAnalyzing

\* C7: after a successful upload the document text is the transcription, the
\* title is the file name, and the aggregate is empty: no suggestions, sources,
\* claim verifications, summary, detection result or error, isAnalyzing false.
C7_UploadReplacesDocAndResets ==
    lastOp.op = "extractSucceeded" =>
        /\ doc = [text |-> lastOp.arg.text, title |-> lastOp.arg.name]
        /\ analysis = [isAnalyzing |-> FALSE, suggestions |-> <<>>,
                       sources |-> <<>>, claimVerification |-> <<>>,
                       summary |-> Null, aiDetection |-> NullObj,
                       error |-> Null]

\* an upload has succeeded while a selection verification was outstanding
C7_Witness ==
    /\ lastOp.op = "extractSucceeded"
    /\ doc.title = "f.pdf"
    /\ doc.text = <<"a", "a">>
    /\ verifies > 0

\* C8 as stated: a failed upload or transcription leaves the document and the
\* whole aggregate, its error included, as they were.
C8_FailedUploadChangesNothing ==
    [][lastOp'.op \in {"extractFailed", "readerOnerror"} =>
          doc' = doc /\ analysis' = analysis]_vars

\* C8: a failed transcription writes a document-specific message, different
\* from both analysis messages, into the aggregate's error and leaves the
\* document and every other field of the aggregate unchanged; a failed file
\* read leaves the document and the whole aggregate unchanged.
C8_FailedUploadSetsOnlyError ==
    [][/\ lastOp'.op = "extractFailed" =>
             /\ doc' = doc
             /\ analysis' = [analysis EXCEPT !.error = analysis'.error]
             /\ analysis'.error = ReadFailed
             /\ ReadFailed \notin {Null, AnalysisFailed, VerifyFailed}
       /\ lastOp'.op = "readerOnerror" =>
             doc' = doc /\ analysis' = analysis]_vars

\* a transcription has failed over the results of an earlier scan
C8_Witness ==
    /\ lastOp.op = "extractFailed"
    /\ analysis.error = ReadFailed
    /\ analysis.summary # Null
    /\ analysis.suggestions # <<>>

\* C9: a successful scan makes AI_CHECK the active tab if the returned score
\* exceeds 80, otherwise GRAMMAR if suggestions were returned, otherwise
\* SOURCES if sources were returned, otherwise leaves the tab; a scan that
\* fails leaves the tab.
C9_TabRoutedBySuccessOnly ==
    [][/\ lastOp'.op = "scanSucceeded" =>
             activeTab' =
                 IF lastOp'.ret.aiDetection.score > 80 THEN AI_CHECK
                 ELSE IF lastOp'.ret.suggestions # <<>> THEN GRAMMAR
                 ELSE IF lastOp'.ret.sources # <<>> THEN SOURCES
                 ELSE activeTab
       /\ lastOp'.op \in {"scanFailed", "scanThrew"} =>
             activeTab' = activeTab]_vars

\* a scan returning suggestions and a score of exactly 80 opened GRAMMAR
C9_Witness ==
    /\ lastOp.op = "scanSucceeded"
    /\ lastOp.ret.aiDetection.score = 80
    /\ lastOp.ret.suggestions # <<>>
    /\ activeTab = GRAMMAR

\* the text with its first occurrence of original replaced by the characters
\* of suggested, none of them interpreted
LiteralReplaceFirst(text, original, suggested) ==
    LET pos == IndexOf(text, original)
    IN  SubSeq(text, 1, pos) \o suggested
        \o SubSeq(text, pos + Len(original) + 1, Len(text))

\* C5: accepting a suggestion whose originalText occurs in the text replaces
\* the first occurrence by suggestedText, character for character, and leaves
\* the rest of the text as it was.
C5_FirstOccurrenceReplacedLiterally ==
    [][(lastOp'.op = "applySuggestion"
        /\ IndexOf(doc.text, lastOp'.arg.originalText) # -1) =>
          doc'.text = LiteralReplaceFirst(doc.text, lastOp'.arg.originalText,
                                          lastOp'.arg.suggestedText)]_vars

\* C6: accepting a suggestion whose originalText does not occur in the text
\* leaves text and title unchanged; every acceptance removes the accepted
\* suggestion from the pending list, keeps every other suggestion in its
\* place in the order, and changes nothing else of the aggregate.
C6_RemovedWhetherOrNotReplaced ==
    [][lastOp'.op = "applySuggestion" =>
          /\ IndexOf(doc.text, lastOp'.arg.originalText) = -1 => doc' = doc
          /\ doc'.title = doc.title
          /\ \E i \in 1..Len(analysis.suggestions) :
                /\ analysis.suggestions[i] = lastOp'.arg
                /\ analysis'.suggestions = RemoveAt(analysis.suggestions, i)
          /\ analysis' = [analysis EXCEPT !.suggestions = analysis'.suggestions]]_vars

\* the second of three suggestions was accepted though its originalText does
\* not occur in the text; the first and the third are still pending
C6_Witness ==
    /\ lastOp.op = "applySuggestion"
    /\ IndexOf(doc.text, lastOp.arg.originalText) = -1
    /\ lastOp.arg.id[2] = 1
    /\ Len(analysis.suggestions) = 2
    /\ analysis.suggestions[1].id[2] = 0
    /\ analysis.suggestions[2].id[2] = 2

\* C10: runAnalysis on a blank text and verifySelection on an empty selection
\* return at once: isAnalyzing is not set, no request is issued, the tab and
\* the aggregate stay as they are.
C10_BlankInputIsNoOp ==
    [][/\ (runAnalysis /\ Trim(doc.text) = <<>>) => UNCHANGED prog
       /\ (verifySelection /\ selectedText = <<>>) => UNCHANGED prog]_vars

\* runAnalysis has been called on a text of white space only
C10_Witness ==
    /\ lastOp.op = "runAnalysis"
    /\ doc.text = <<" ">>
    /\ scans = <<>>
    /\ ~analysis.isAnalyzing

\* C11: a selection verification on a non-empty selection sets isAnalyzing,
\* clears the error and opens the Sources tab when it starts; its success
\* replaces claimVerification and clears isAnalyzing, its failure sets the
\* selection message and clears isAnalyzing; none of these steps changes
\* suggestions, sources, summary, aiDetection or the document.
C11_VerificationTouchesOnlyItsFields ==
    [][/\ (lastOp'.op = "verifySelection" /\ selectedText # <<>>) =>
             /\ analysis' = [analysis EXCEPT !.isAnalyzing = TRUE, !.error = Null]
             /\ activeTab' = SOURCES
             /\ doc' = doc
       /\ lastOp'.op = "verifySucceeded" =>
             /\ analysis' = [analysis EXCEPT
                               !.isAnalyzing = FALSE,
                               !.claimVerification = analysis'.claimVerification]
             /\ doc' = doc
       /\ lastOp'.op = "verifyFailed" =>
             /\ analysis' = [analysis EXCEPT !.isAnalyzing = FALSE,
                                             !.error = VerifyFailed]
             /\ doc' = doc]_vars

\* a verification has brought claims into an aggregate that holds the
\* suggestions and the summary of an earlier scan
C11_Witness ==
    /\ lastOp.op = "verifySucceeded"
    /\ analysis.claimVerification # <<>>
    /\ analysis.suggestions # <<>>
    /\ analysis.summary # Null
    /\ ~analysis.isAnalyzing

-----------------------------------------------------------------------------
(* verifySources on every short sequence of grounding chunks *)

Chunks ==
    {WebChunk("u1", "T1"), WebChunk("u1", "T2"), WebChunk("u2", "T1"),
     WebChunk("u2", ""), OtherChunk}

\* the sequences over a set of length at most n
SeqsUpTo(set, n) == UNION {[1..k -> set] : k \in 0..n}

\* a full scan whose grounded search is about to return the chunks of
\* lastOp.arg as the last of its four requests
InitSources ==
    /\ doc = [text |-> DEFAULT_TEXT, title |-> DEFAULT_TITLE]
    /\ selectedText = <<>>
    /\ activeTab = GRAMMAR
    /\ analysis = scanStarted(InitialAnalysis)
    /\ isUploading = FALSE
    /\ apiKey = TRUE
    /\ scans = <<[fulfilled |-> Cardinality(Requests) - 1, pre |-> NoInfo]>>
    /\ verifies = 0
    /\ upload = NoUpload
    /\ lastOp \in {ArgOp("sourcesRequested", chunks) : chunks \in SeqsUpTo(Chunks, MaxChunks)}

sourcesFulfilled ==
    /\ lastOp.op = "sourcesRequested"
    /\ scans # <<>>
    /\ scans' = RemoveAt(scans, 1)
    /\ scanContinuation(1, <<>>,
                        verifySources([grounded |-> TRUE, chunks |-> lastOp.arg]),
                        generateSummary(Text("S")), AiFallback)
    /\ UNCHANGED <<doc, selectedText, isUploading, apiKey, verifies, upload>>

NextSources == sourcesFulfilled

SpecSources == InitSources /\ [][NextSources]_vars

\* the positions of the web chunks with this uri
PositionsOf(chunks, uri) ==
    {k \in 1..Len(chunks) : chunks[k].web /\ chunks[k].uri = uri}

FirstPositionOf(chunks, uri) ==
    CHOOSE k \in PositionsOf(chunks, uri) : \A l \in PositionsOf(chunks, uri) : k <= l

\* C12: the sources verifySources returns hold each url of the web chunks
\* exactly once, in the order in which the urls first appear, each with the
\* title of the first chunk that has the url (the placeholder title when
\* that chunk has none).
C12_SourcesDedupedFirstSeen ==
    [][lastOp.op = "sourcesRequested" /\ lastOp'.op = "scanSucceeded" =>
         LET chunks == lastOp.arg
             result == analysis'.sources
             first(i) == FirstPositionOf(chunks, result[i].url)
         IN  /\ {result[i].url : i \in 1..Len(result)}
                  = {chunks[k].uri : k \in {l \in 1..Len(chunks) : chunks[l].web}}
             /\ \A i, j \in 1..Len(result) : i < j => result[i].url # result[j].url
             /\ \A i, j \in 1..Len(result) : i < j => first(i) < first(j)
             /\ \A i \in 1..Len(result) :
                   result[i].title = IF chunks[first(i)].title = ""
                                     THEN "External Source"
                                     ELSE chunks[first(i)].title]_vars

\* two urls came back, the second-seen url first repeated with another title
C12_Witness ==
    /\ lastOp.op = "scanSucceeded"
    /\ Len(analysis.sources) = 2
    /\ analysis.sources[1] = [url |-> "u2", title |-> "External Source"]
    /\ analysis.sources[2] = [url |-> "u1", title |-> "T2"]

\* C13: the ids of the pending suggestions are pairwise distinct in every
\* reachable state.
C13_PendingIdsDistinct ==
    \A i, j \in 1..Len(analysis.suggestions) :
        i # j => analysis.suggestions[i].id # analysis.suggestions[j].id

\* two suggestions of one response are pending: same time stamp, ids apart
C13_Witness ==
    /\ Len(analysis.suggestions) = 2
    /\ analysis.suggestions[1].id[3] = analysis.suggestions[2].id[3]
    /\ analysis.suggestions[1].id # analysis.suggestions[2].id

WellFormedDetection(d) ==
    /\ d.t = "object"
    /\ d.score \in 0..100
    /\ d.label \in {"Likely Human", "Mixed Signals", "Likely AI-Generated"}

\* C14: on a response that does not fit the schema checkGrammarAndStyle and
\* verifyTextClaims return the empty list and detectAIContent its fallback,
\* so every detection result a scan receives is a well-formed
\* AiDetectionResult.
C14_MalformedResponsesAbsorbed ==
    /\ \A response \in {InvalidJson, Json(NullObj)}, now \in Stamps :
          /\ checkGrammarAndStyle(response, now) = <<>>
          /\ verifyTextClaims(response, now) = <<>>
    /\ detectAIContent(InvalidJson) = [t |-> "object", score |-> 0,
                                       label |-> "Likely Human"]
    /\ lastOp.op \in {"scanSucceeded", "scanThrew"} =>
          WellFormedDetection(lastOp.ret.aiDetection)

\* C15: an edit changes the document text and nothing else: title, active
\* tab and every field of the aggregate stay as they are.
C15_EditChangesOnlyText ==
    [][lastOp'.op = "handleTextChange" =>
          /\ doc'.title = doc.title
          /\ analysis' = analysis
          /\ activeTab' = activeTab]_vars

\* the text was edited away under the results of a scan, which are kept
C15_Witness ==
    /\ lastOp.op = "handleTextChange"
    /\ doc.text = <<>>
    /\ analysis.suggestions # <<>>
    /\ analysis.sources # <<>>
    /\ analysis.summary # Null

\* C16: once the file read of an upload has completed and no transcription
\* is outstanding, isUploading is false: no upload leaves the flag set.
C16_SettledUploadClearsFlag ==
    upload.phase = "idle" => ~isUploading

\* C17: in the step that follows a successful upload, before any run started
\* after the upload can have completed, the aggregate still holds no result:
\* no suggestions, sources, summary, detection result or claim verification.
C17_NoResultRightAfterUpload ==
    [][lastOp.op = "extractSucceeded" =>
          /\ Results(analysis') = NoInfo
          /\ analysis'.claimVerification = <<>>]_vars

\* C18: a full scan ends either with the four result fields replaced by what
\* its calls returned and no error, or with the four result fields as they
\* were and the analysis-failure message.
C18_ScanReplacesOrFails ==
    [][lastOp'.op \in FinishedScan =>
          \/ /\ Results(analysis') = lastOp'.ret
             /\ analysis'.error = Null
          \/ /\ Results(analysis') = Results(analysis)
             /\ analysis'.error = AnalysisFailed]_vars

====
